---- MODULE Spec2Model ----
(***************************************************************************)
(* A model of the fuel price pipeline: the fuel_prices table, the EIA      *)
(* ingestion (DataLoader._ingest_eia_data), the trend calculator           *)
(* (DataAnalyzer.calculate_daily_trends), the anomaly detector             *)
(* (AnomalyDetector.detect_price_anomalies), the session scope both open   *)
(* (DatabaseManager.get_session), and the fuel_price_monitoring DAG: the   *)
(* ordering of its tasks and the values its task callables pass by XCom.   *)
(*                                                                         *)
(* Conventions.  The fuel_prices table is a bag of rows: SQL gives a table *)
(* no order, and the primary key (a fresh uuid4 per row, never read by the *)
(* code) is left out, so two rows equal in every modelled column are two   *)
(* copies in the bag.  A missing string is None and a missing number Null. *)
(* Prices are whole numbers of a unit (hundredths of a currency unit where *)
(* a scenario needs them); Python's float arithmetic is modelled           *)
(* as exact rational arithmetic, and round(x, 4) as round-half-even to an  *)
(* integer number of 1/10000 units.  Time is an integer number of ticks,   *)
(* DayLen ticks a day.                                                     *)
(***************************************************************************)
EXTENDS Integers, Sequences, FiniteSets, Bags, TLC

VARIABLES
    store,          \* the fuel_prices table: a bag of rows
    now,            \* the server clock (datetime.utcnow), in ticks
    ingestResult,   \* what the last _ingest_eia_data call returned
    detectCall,     \* the last detect_price_anomalies call: arguments, queries, outcome
    anomalies,      \* the anomalies the last detect_price_anomalies call returned
    trendCall,      \* the last two calculate_daily_trends calls: times, count since a write
    trends,         \* the trends the last calculate_daily_trends call returned
    prevTrends,     \* the trends the call before it returned
    taskState,      \* DAG run: the state of each task instance
    tryNumber,      \* DAG run: the tries each task instance has made
    started,        \* DAG run: the tasks that have started at least once
    runNumber,      \* the number of the DAG run
    xcom,           \* DAG run: the XCom values the tasks have pushed
    prevXcom,       \* the XCom values of the run before
    dbCall,         \* the last get_session scope: component, queries, outcome
    openSessions    \* the number of sessions opened and not closed

vars == <<store, now, ingestResult, detectCall, anomalies, trendCall, trends,
          prevTrends, taskState, tryNumber, started, runNumber, xcom, prevXcom,
          dbCall, openSessions>>

storeVars  == <<store, now, ingestResult>>
detectVars == <<detectCall, anomalies>>
trendVars  == <<trendCall, trends, prevTrends>>
dagVars    == <<taskState, tryNumber, started>>
runVars    == <<runNumber, xcom, prevXcom, dbCall, openSessions>>

----------------------------------------------------------------------------
(* Values *)

None == "None"

\* The option encoding of a nullable number: <<>> is NULL, <<p>> is p.
Null == <<>>
Some(p) == <<p>>
IsNull(v) == v = <<>>
Val(v) == v[1]

Max(a, b) == IF a >= b THEN a ELSE b
Min(a, b) == IF a <= b THEN a ELSE b

RECURSIVE SeqSum(_)
SeqSum(s) == IF s = <<>> THEN 0 ELSE Head(s) + SeqSum(Tail(s))

RECURSIVE SeqSumSq(_)
SeqSumSq(s) == IF s = <<>> THEN 0 ELSE Head(s) * Head(s) + SeqSumSq(Tail(s))

\* The integer nearest to n/d, ties to even (d > 0): Python's round.
RoundHalfEven(n, d) ==
    LET q == n \div d
        r == n % d
    IN  IF 2 * r < d THEN q
        ELSE IF 2 * r > d THEN q + 1
        ELSE IF q % 2 = 0 THEN q ELSE q + 1

\* round(n/d, 4), in 1/10000 units.
Round4(n, d) == RoundHalfEven(n * 10000, d)

----------------------------------------------------------------------------
(* The fuel_prices table *)

\* (fuel_type, region) of the rows the model stores: a full key, and a row with
\* an empty fuel_type (api_client.py: item.get('product', '')) and no region.
KeySet == {<<"petrol", "Nairobi">>, <<"", None>>}

\* A row of fuel_prices, in the columns the code reads or writes.
Row(fuel_type, region, price, source, source_id, recorded_at) ==
    [fuel_type |-> fuel_type, region |-> region, price |-> price,
     source |-> source, source_id |-> source_id, recorded_at |-> recorded_at]

Rows(table) == BagToSet(table)
RowCount(table) == BagCardinality(table)
InsertRow(table, row) == table (+) SetToBag({row})

RECURSIVE InsertAll(_, _)
InsertAll(table, rows) ==
    IF rows = <<>> THEN table
    ELSE InsertAll(InsertRow(table, Head(rows)), Tail(rows))

\* The unique constraints FuelPrice declares besides its primary key: none.
\* source_id is Column(String) with the plain Index('idx_source_id').
UniqueColumnSets == {}

\* Whether INSERTing row into table raises IntegrityError.
ViolatesUnique(table, row) ==
    \E cols \in UniqueColumnSets :
        \E r \in Rows(table) : \A c \in cols : r[c] = row[c]

----------------------------------------------------------------------------
(* Bounds *)

MaxIngestRows == 4      \* rows in the table, ingestion specification
MaxBatch == 2           \* items one fetch returns
DayLen == 2             \* ticks in a calendar day

----------------------------------------------------------------------------
(* DataLoader._ingest_eia_data *)

\* An item's recorded_at string: Some(t) is the ISO text of time t, and Null a
\* value datetime.fromisoformat rejects (or a missing 'period').
BadDate == Null

IngestSourceIds == {1, 2}
IngestPrices == {1, 2}
IngestTimes == {Some(DayLen), BadDate}

\* An item of api_client._transform_eia_data's result.
FetchedItems ==
    [fuel_type : {"petrol"}, region : {"Nairobi"}, price : IngestPrices,
     source : {"eia"}, source_id : IngestSourceIds, recorded_at : IngestTimes]

Batches == UNION {[1..n -> FetchedItems] : n \in 0..MaxBatch}

\* FuelPrice(...) for one item; datetime.fromisoformat raises on a bad date.
ItemRaises(item) == item.recorded_at = BadDate

ItemRow(item) ==
    Row(item.fuel_type, item.region, Some(item.price), item.source,
        item.source_id, Val(item.recorded_at))

\* session.add(fuel_price) only registers the object with the session
\* (autoflush=False, and nothing is queried before the scope ends): it issues
\* no INSERT and so raises no IntegrityError; the except branch is not entered.
AddRaisesIntegrityError(table, pending, item) == FALSE

\* The loop of _ingest_eia_data over raw_data[i..]: st is the session state
\* [pending, ingested, table, raised].
RECURSIVE IngestLoop(_, _, _)
IngestLoop(raw_data, i, st) ==
    IF i > Len(raw_data) \/ st.raised THEN st
    ELSE LET item == raw_data[i] IN
         IF ItemRaises(item)
         THEN [st EXCEPT !.raised = TRUE]
         ELSE IF AddRaisesIntegrityError(st.table, st.pending, item)
         THEN \* session.rollback(); update the existing record, if any
              LET existing == {r \in Rows(st.table) : r.source_id = item.source_id}
              IN  IF existing = {}
                  THEN IngestLoop(raw_data, i + 1, [st EXCEPT !.pending = <<>>])
                  ELSE LET e == CHOOSE r \in existing : TRUE
                           others == [r \in Rows(st.table) \ {e} |-> st.table[r]]
                           rest == IF st.table[e] > 1
                                   THEN others (+) [x \in {e} |-> st.table[e] - 1]
                                   ELSE others
                       IN  IngestLoop(raw_data, i + 1,
                               [st EXCEPT !.pending = <<>>,
                                          !.table = InsertRow(rest,
                                              [e EXCEPT !.price = Some(item.price)]),
                                          !.ingested = @ + 1])
         ELSE IngestLoop(raw_data, i + 1,
                  [st EXCEPT !.pending = Append(@, ItemRow(item)),
                             !.ingested = @ + 1])

\* session.commit() at the end of the get_session scope: the pending rows are
\* INSERTed in order; a unique violation raises IntegrityError.
RECURSIVE CommitRaises(_, _)
CommitRaises(table, pending) ==
    IF pending = <<>> THEN FALSE
    ELSE ViolatesUnique(table, Head(pending))
         \/ CommitRaises(InsertRow(table, Head(pending)), Tail(pending))

\* The table and the result dict after _ingest_eia_data with raw_data fetched.
IngestOutcome(table, raw_data) ==
    LET st == IngestLoop(raw_data, 1,
                  [pending |-> <<>>, ingested |-> 0, table |-> table, raised |-> FALSE])
    IN  IF st.raised \/ CommitRaises(st.table, st.pending)
        THEN \* get_session rolls back and re-raises; the outer except returns
             [table |-> table,
              result |-> [status |-> "error", ingested |-> 0, total_fetched |-> 0]]
        ELSE [table |-> InsertAll(st.table, st.pending),
              result |-> [status |-> "success", ingested |-> st.ingested,
                          total_fetched |-> Len(raw_data)]]

IngestEia(raw_data) ==
    /\ RowCount(store) + Len(raw_data) <= MaxIngestRows
    /\ LET out == IngestOutcome(store, raw_data) IN
         /\ store' = out.table
         /\ ingestResult' = out.result
    /\ UNCHANGED <<now, detectVars, trendVars, dagVars, runVars>>

NoResult == [status |-> "none", ingested |-> 0, total_fetched |-> 0]

\* The XCom values of a DAG run, by (task_id, key): Null until pushed.  A
\* callable's return value is pushed under the key return_value.
XcomKeys ==
    {<<"ingest_data", "ingestion_results">>, <<"ingest_data", "return_value">>,
     <<"validate_data", "return_value">>,
     <<"analyze_trends", "trends">>, <<"analyze_trends", "return_value">>,
     <<"detect_anomalies", "anomalies_detected">>, <<"detect_anomalies", "anomalies">>,
     <<"detect_anomalies", "return_value">>,
     <<"check_thresholds", "price_alerts">>, <<"check_thresholds", "return_value">>,
     <<"generate_report", "daily_report">>, <<"generate_report", "return_value">>}

EmptyXcom == [k \in XcomKeys |-> Null]

\* No get_session scope entered yet.
NoDbCall ==
    [component |-> "none", fault |-> "none", queries |-> 0, committed |-> FALSE,
     rolledBack |-> FALSE, closed |-> FALSE, raised |-> FALSE, returned |-> Null]

InitRunIdle ==
    /\ runNumber = 1
    /\ xcom = EmptyXcom
    /\ prevXcom = EmptyXcom
    /\ dbCall = NoDbCall
    /\ openSessions = 0

InitIdle ==
    /\ InitRunIdle
    /\ ingestResult = NoResult
    /\ detectCall = [ran |-> FALSE, z_threshold |-> 0, history_size |-> 0,
                     queries |-> 0, raised |-> FALSE]
    /\ anomalies = <<>>
    /\ trendCall = [calls |-> 0, now |-> 0, prevNow |-> 0]
    /\ trends = <<>>
    /\ prevTrends = <<>>
    /\ taskState = <<>>
    /\ tryNumber = <<>>
    /\ started = {}

InitIngest ==
    /\ store = EmptyBag
    /\ now = DayLen
    /\ InitIdle

NextIngest == \E raw_data \in Batches : IngestEia(raw_data)

SpecIngest == InitIngest /\ [][NextIngest]_vars

----------------------------------------------------------------------------
(* AnomalyDetector.detect_price_anomalies *)

QueryLimit == 5000      \* .limit(5000)
MinSamples == 5         \* if len(prices) < 5: continue
MinBaseline == 2        \* if len(baseline) < 2: continue

\* A table's rows as a sequence, ORDER BY recorded_at DESC.  The order of rows
\* with equal recorded_at is the database's.
RECURSIVE OrderByRecordedAtDesc(_)
OrderByRecordedAtDesc(table) ==
    IF Rows(table) = {} THEN <<>>
    ELSE LET r == CHOOSE x \in Rows(table) :
                      \A q \in Rows(table) : q.recorded_at <= x.recorded_at
         IN  <<r>> \o OrderByRecordedAtDesc(table (-) SetToBag({r}))

Limit(s, n) == SubSeq(s, 1, Min(Len(s), n))

\* session.query(FuelPrice).order_by(recorded_at.desc()).limit(5000).all()
RecentRows(table) == Limit(OrderByRecordedAtDesc(table), QueryLimit)

\* x or 'unknown'
OrUnknown(x) == IF x = None \/ x = "" THEN "unknown" ELSE x

SeriesKey(row) == <<OrUnknown(row.fuel_type), OrUnknown(row.region)>>

\* The keys of grouped, in dict insertion order: first appearance in rows.
RECURSIVE GroupKeys(_, _)
GroupKeys(rows, seen) ==
    IF rows = <<>> THEN seen
    ELSE LET k == SeriesKey(Head(rows)) IN
         GroupKeys(Tail(rows),
                   IF \E i \in 1..Len(seen) : seen[i] = k THEN seen ELSE Append(seen, k))

\* grouped[key]: the rows of the key, in the order fetched.
GroupOf(rows, key) == SelectSeq(rows, LAMBDA r : SeriesKey(r) = key)

\* sorted(series, key=lambda r: r.recorded_at): a stable ascending sort.
RECURSIVE InsertSorted(_, _)
InsertSorted(sorted, r) ==
    IF sorted = <<>> THEN <<r>>
    ELSE IF Head(sorted).recorded_at <= r.recorded_at
         THEN <<Head(sorted)>> \o InsertSorted(Tail(sorted), r)
         ELSE <<r>> \o sorted

RECURSIVE SortedByRecordedAt(_)
SortedByRecordedAt(series) ==
    IF series = <<>> THEN <<>>
    ELSE InsertSorted(SortedByRecordedAt(SubSeq(series, 1, Len(series) - 1)),
                      series[Len(series)])

\* [float(r.price) for r in series if r.price is not None]
RECURSIVE ValidPrices(_)
ValidPrices(series) ==
    IF series = <<>> THEN <<>>
    ELSE IF IsNull(Head(series).price) THEN ValidPrices(Tail(series))
         ELSE <<Val(Head(series).price)>> \o ValidPrices(Tail(series))

\* prices[-history_size:], with Python's slice semantics: a negative start counts
\* from the end and is clamped at 0, and -0 is 0, the start of the list.
BaselineStart(n, history_size) ==
    IF history_size > 0 THEN Max(n - history_size, 0)
    ELSE Min(-history_size, n)

\* Mutant: the window taken before the latest price, prices[-history_size-1:-1].
BaselineBeforeLatest(prices, history_size) ==
    SubSeq(prices, BaselineStart(Len(prices) - 1, history_size) + 1, Len(prices) - 1)

Baseline(prices, history_size) ==
    SubSeq(prices, BaselineStart(Len(prices), history_size) + 1, Len(prices))

\* mean(b) = SeqSum(b) / Len(b), and pstdev(b) = sqrt(VarNumer(b)) / Len(b).
VarNumer(b) == Len(b) * SeqSumSq(b) - SeqSum(b) * SeqSum(b)

\* sigma == 0
SigmaIsZero(b) == VarNumer(b) = 0

\* z_score = (latest - avg) / sigma = ZNumer / sqrt(VarNumer).
ZNumer(b, latest) == Len(b) * latest - SeqSum(b)

\* Mutant: abs(z_score) > z_threshold
AbsZAbove(b, latest, z_threshold) ==
    \/ z_threshold < 0
    \/ ZNumer(b, latest) * ZNumer(b, latest) > z_threshold * z_threshold * VarNumer(b)

\* abs(z_score) >= z_threshold
AbsZAtLeast(b, latest, z_threshold) ==
    \/ z_threshold <= 0
    \/ ZNumer(b, latest) * ZNumer(b, latest) >= z_threshold * z_threshold * VarNumer(b)

\* 'spike' if z_score > 0 else 'drop'
AnomalyType(b, latest) == IF ZNumer(b, latest) > 0 THEN "spike" ELSE "drop"

\* The dict appended for a series.  z_score is irrational in general: it is
\* kept exact, as numer / sqrt(radicand), in place of its 4-decimal rounding.
AnomalyOf(key, b, latest) ==
    [fuel_type |-> key[1], region |-> key[2],
     latest_price |-> Round4(latest, 1),
     baseline_mean |-> Round4(SeqSum(b), Len(b)),
     z_score |-> [numer |-> ZNumer(b, latest), radicand |-> VarNumer(b)],
     anomaly_type |-> AnomalyType(b, latest)]

\* The body of the loop over grouped for one series: the anomalies appended.
SeriesAnomalies(key, series, z_threshold, history_size) ==
    LET prices == ValidPrices(SortedByRecordedAt(series))
        baseline == Baseline(prices, history_size)
        latest == prices[Len(prices)]
    IN  IF Len(prices) < MinSamples THEN <<>>
        ELSE IF Len(baseline) < MinBaseline THEN <<>>
        ELSE IF SigmaIsZero(baseline) THEN <<>>
        ELSE IF AbsZAtLeast(baseline, latest, z_threshold)
             THEN <<AnomalyOf(key, baseline, latest)>>
             ELSE <<>>

RECURSIVE AnomaliesOver(_, _, _, _)
AnomaliesOver(keys, rows, z_threshold, history_size) ==
    IF keys = <<>> THEN <<>>
    ELSE SeriesAnomalies(Head(keys), GroupOf(rows, Head(keys)), z_threshold, history_size)
         \o AnomaliesOver(Tail(keys), rows, z_threshold, history_size)

\* What detect_price_anomalies returns on table.
DetectPriceAnomalies(table, z_threshold, history_size) ==
    LET rows == RecentRows(table)
    IN  AnomaliesOver(GroupKeys(rows, <<>>), rows, z_threshold, history_size)

\* A call of detect_price_anomalies: one query of the store, whatever the
\* arguments; nothing in the body raises on them.
Detect(z_threshold, history_size) ==
    /\ anomalies' = DetectPriceAnomalies(store, z_threshold, history_size)
    /\ detectCall' = [ran |-> TRUE, z_threshold |-> z_threshold,
                      history_size |-> history_size, queries |-> 1, raised |-> FALSE]
    /\ UNCHANGED <<storeVars, trendVars, dagVars, runVars>>

MaxSeriesRows == 5      \* rows in the table, detector specification

ZThresholds == {-1, 0, 2, 3}
HistorySizes == {0, 1, 4, 30}

\* The (key, price) of the rows the detector specification writes: three price
\* levels and NULL for one key, two levels for the other.
SeriesRowKinds ==
    ({<<"petrol", "Nairobi">>} \X {Null, Some(1), Some(2), Some(3)})
    \cup ({<<"", None>>} \X {Some(1), Some(2)})

LatestTime(table) ==
    IF Rows(table) = {} THEN 0
    ELSE CHOOSE t \in {r.recorded_at : r \in Rows(table)} :
             \A r \in Rows(table) : r.recorded_at <= t

\* A row written to fuel_prices before the detector runs, observations arriving
\* in recorded_at order.  price is NULL for a row written past the ORM
\* (validate_data_task looks for such rows).
WriteRow(key, price) ==
    /\ ~detectCall.ran
    /\ RowCount(store) < MaxSeriesRows
    /\ store' = InsertRow(store,
                    Row(key[1], key[2], price, "eia", LatestTime(store) + 1,
                        LatestTime(store) + 1))
    /\ UNCHANGED <<now, ingestResult, detectVars, trendVars, dagVars, runVars>>

\* spec.md, Scenario B: 29 prices of 100 followed by 130.
ScenarioB ==
    SetToBag({Row("petrol", "Nairobi", Some(IF t = 30 THEN 130 ELSE 100), "eia", t, t)
              : t \in 1..30})

InitAnomaly ==
    /\ store \in {EmptyBag, ScenarioB}
    /\ now = DayLen
    /\ InitIdle

NextAnomaly ==
    \/ \E kind \in SeriesRowKinds : WriteRow(kind[1], kind[2])
    \/ \E z \in ZThresholds, h \in HistorySizes : ~detectCall.ran /\ Detect(z, h)

SpecAnomaly == InitAnomaly /\ [][NextAnomaly]_vars

----------------------------------------------------------------------------
(* DataAnalyzer.calculate_daily_trends *)

\* A rational n/d, d > 0, is the pair <<n, d>>.
Rat(n, d) == IF d < 0 THEN <<-n, -d>> ELSE <<n, d>>
RatZero == <<0, 1>>
RatSub(a, b) == Rat(a[1] * b[2] - b[1] * a[2], a[2] * b[2])
RatDiv(a, b) == Rat(a[1] * b[2], a[2] * b[1])
RatTimes(a, k) == Rat(a[1] * k, a[2])
RatRound4(a) == Round4(a[1], a[2])

\* Mutant: today_start taken as now, the day not truncated.
TodayStartUntruncated(t) == t

\* datetime(now.year, now.month, now.day)
TodayStart(t) == (t \div DayLen) * DayLen

\* today_start - timedelta(days=1)
YesterdayStart(t) == TodayStart(t) - DayLen

\* The rows of a table, each copy once, as a sequence.
RECURSIVE TableSeq(_)
TableSeq(table) ==
    IF Rows(table) = {} THEN <<>>
    ELSE LET r == CHOOSE x \in Rows(table) : TRUE
         IN  <<r>> \o TableSeq(table (-) SetToBag({r}))

GroupKey(row) == <<row.fuel_type, row.region>>

\* .filter(FuelPrice.recorded_at >= today_start)
InTodayFilter(row, t) == row.recorded_at >= TodayStart(t)

\* .filter(recorded_at >= yesterday_start, recorded_at < today_start)
InYesterdayFilter(row, t) ==
    row.recorded_at >= YesterdayStart(t) /\ row.recorded_at < TodayStart(t)

TodaySelection(table, t) == SelectSeq(TableSeq(table), LAMBDA r : InTodayFilter(r, t))
YesterdaySelection(table, t) ==
    SelectSeq(TableSeq(table), LAMBDA r : InYesterdayFilter(r, t))

\* The groups of GROUP BY fuel_type, region over the selected rows.
GroupsOf(selection) == {GroupKey(selection[i]) : i \in 1..Len(selection)}

\* func.avg(FuelPrice.price) over a group: NULL prices do not count, and the
\* average of none is NULL.
AvgPrice(selection, key) ==
    LET prices == ValidPrices(SelectSeq(selection, LAMBDA r : GroupKey(r) = key))
    IN  IF prices = <<>> THEN Null ELSE Rat(SeqSum(prices), Len(prices))

\* float(row.avg_price or 0.0)
FloatOrZero(avg) == IF IsNull(avg) \/ avg[1] = 0 THEN RatZero ELSE avg

\* yesterday_map
YesterdayMap(table, t) ==
    LET sel == YesterdaySelection(table, t)
    IN  [key \in GroupsOf(sel) |-> FloatOrZero(AvgPrice(sel, key))]

\* Mutant: yesterday_map.get(key, 0.0)
YesterdayPriceDefaultZero(ymap, key, current_price) ==
    IF key \in DOMAIN ymap THEN ymap[key] ELSE RatZero

\* yesterday_map.get(key, current_price)
YesterdayPrice(ymap, key, current_price) ==
    IF key \in DOMAIN ymap THEN ymap[key] ELSE current_price

\* (day_change / yesterday_price * 100.0) if yesterday_price else 0.0
DayChangePercent(day_change, yesterday_price) ==
    IF yesterday_price[1] # 0
    THEN RatTimes(RatDiv(day_change, yesterday_price), 100)
    ELSE RatZero

\* The dict appended for one row of today_rows.
TrendOf(key, avg_price, ymap) ==
    LET current_price == FloatOrZero(avg_price)
        yesterday_price == YesterdayPrice(ymap, key, current_price)
        day_change == RatSub(current_price, yesterday_price)
    IN  [fuel_type |-> key[1], region |-> key[2],
         current_price |-> RatRound4(current_price),
         yesterday_price |-> RatRound4(yesterday_price),
         day_change |-> RatRound4(day_change),
         day_change_percent |->
             RatRound4(DayChangePercent(day_change, yesterday_price))]

\* The orders in which the database may return the groups of a query that
\* has no ORDER BY.
Orderings(S) ==
    {f \in [1..Cardinality(S) -> S] : \A i, j \in DOMAIN f : f[i] = f[j] => i = j}

TodayGroups(table, t) == GroupsOf(TodaySelection(table, t))

\* What calculate_daily_trends returns at clock time t, the database
\* returning today's groups in the given order.
DailyTrends(table, t, order) ==
    LET sel == TodaySelection(table, t)
        ymap == YesterdayMap(table, t)
    IN  [i \in DOMAIN order |-> TrendOf(order[i], AvgPrice(sel, order[i]), ymap)]

MaxTrendRows == 3       \* rows in the table, trend specification
MaxTime == 4            \* the last tick of the clock and of recorded_at
MaxCalls == 2           \* calls of calculate_daily_trends in a behaviour

TrendPrices == {0, 2}
TrendTimes == 1..MaxTime

\* A call of calculate_daily_trends when the clock reads t: two queries in
\* one session, nothing written.
CalculateDailyTrends(t, order) ==
    /\ trendCall.calls < MaxCalls
    /\ now' = t
    /\ trends' = DailyTrends(store, t, order)
    /\ prevTrends' = trends
    /\ trendCall' = [calls |-> trendCall.calls + 1, now |-> t, prevNow |-> trendCall.now]
    /\ UNCHANGED <<store, ingestResult, detectVars, dagVars, runVars>>

\* A row written to fuel_prices before the calculator runs.
WriteObservation(key, price, recorded_at) ==
    /\ trendCall.calls = 0
    /\ RowCount(store) < MaxTrendRows
    /\ store' = InsertRow(store,
                    Row(key[1], key[2], Some(price), "eia", recorded_at, recorded_at))
    /\ UNCHANGED <<now, ingestResult, detectVars, trendVars, dagVars, runVars>>

InitTrend ==
    /\ store = EmptyBag
    /\ now = DayLen
    /\ InitIdle

NextTrend ==
    \/ \E key \in KeySet, price \in TrendPrices, t \in TrendTimes :
           WriteObservation(key, price, t)
    \/ \E t \in now..MaxTime : \E order \in Orderings(TodayGroups(store, t)) :
           CalculateDailyTrends(t, order)

SpecTrend == InitTrend /\ [][NextTrend]_vars

----------------------------------------------------------------------------
(* The fuel_price_monitoring DAG: one run *)

Tasks == {"ingest_data", "validate_data", "analyze_trends", "detect_anomalies",
          "check_thresholds", "generate_report", "send_daily_report"}

Retries == 3            \* default_args['retries']

\* Mutant: the line analyze_task >> [anomaly_task, threshold_task] left out.
UpstreamWithoutFanOut(task) ==
    CASE task = "ingest_data" -> {}
      [] task = "validate_data" -> {"ingest_data"}
      [] task = "analyze_trends" -> {"validate_data"}
      [] task = "detect_anomalies" -> {}
      [] task = "check_thresholds" -> {}
      [] task = "generate_report" -> {"detect_anomalies", "check_thresholds"}
      [] task = "send_daily_report" -> {"generate_report"}

\* The direct upstream tasks the >> lines give each task.
Upstream(task) ==
    CASE task = "ingest_data" -> {}
      [] task = "validate_data" -> {"ingest_data"}
      [] task = "analyze_trends" -> {"validate_data"}
      [] task = "detect_anomalies" -> {"analyze_trends"}
      [] task = "check_thresholds" -> {"analyze_trends"}
      [] task = "generate_report" -> {"detect_anomalies", "check_thresholds"}
      [] task = "send_daily_report" -> {"generate_report"}

\* The operators set no trigger_rule: a task instance is run once every
\* direct upstream task instance has succeeded (all_success).
CanStart(task) ==
    /\ taskState[task] \in {"none", "up_for_retry"}
    /\ \A u \in Upstream(task) : taskState[u] = "success"

\* The scheduler starts a try of a task.
StartTask(task) ==
    /\ CanStart(task)
    /\ taskState' = [taskState EXCEPT ![task] = "running"]
    /\ tryNumber' = [tryNumber EXCEPT ![task] = @ + 1]
    /\ started' = started \cup {task}
    /\ UNCHANGED <<storeVars, detectVars, trendVars, runVars>>

\* The task's callable returns.
SucceedTask(task) ==
    /\ taskState[task] = "running"
    /\ taskState' = [taskState EXCEPT ![task] = "success"]
    /\ UNCHANGED <<tryNumber, started, storeVars, detectVars, trendVars, runVars>>

\* The task's callable raises (or its worker dies): retried while tries remain
\* ('retries': 3), failed after the last.
FailTask(task) ==
    /\ taskState[task] = "running"
    /\ taskState' = [taskState EXCEPT
           ![task] = IF tryNumber[task] <= Retries THEN "up_for_retry" ELSE "failed"]
    /\ UNCHANGED <<tryNumber, started, storeVars, detectVars, trendVars, runVars>>

\* A task none of whose tries can run any more: an upstream task has failed.
MarkUpstreamFailed(task) ==
    /\ taskState[task] = "none"
    /\ \E u \in Upstream(task) : taskState[u] \in {"failed", "upstream_failed"}
    /\ taskState' = [taskState EXCEPT ![task] = "upstream_failed"]
    /\ UNCHANGED <<tryNumber, started, storeVars, detectVars, trendVars, runVars>>

InitDag ==
    /\ store = EmptyBag
    /\ now = DayLen
    /\ ingestResult = NoResult
    /\ detectCall = [ran |-> FALSE, z_threshold |-> 0, history_size |-> 0,
                     queries |-> 0, raised |-> FALSE]
    /\ anomalies = <<>>
    /\ trendCall = [calls |-> 0, now |-> 0, prevNow |-> 0]
    /\ trends = <<>>
    /\ prevTrends = <<>>
    /\ taskState = [t \in Tasks |-> "none"]
    /\ tryNumber = [t \in Tasks |-> 0]
    /\ started = {}
    /\ InitRunIdle

NextDag ==
    \E task \in Tasks :
        \/ StartTask(task)
        \/ SucceedTask(task)
        \/ FailTask(task)
        \/ MarkUpstreamFailed(task)

SpecDag == InitDag /\ [][NextDag]_vars

----------------------------------------------------------------------------
(* DatabaseManager.get_session, and the scopes of the two components *)

\* Where a data-access failure strikes a scope: at one of the queries of its
\* body, at the commit that ends it, or nowhere.
AnalyzerFaults == {"none", "today_query", "yesterday_query", "commit"}
DetectorFaults == {"none", "query", "commit"}

\* The body of a with get_session() block that issues the named queries in
\* order: the queries issued, and whether the body raised.
BodyOutcome(queryNames, fault) ==
    LET failing == {i \in 1..Len(queryNames) : queryNames[i] = fault}
    IN  IF failing = {} THEN [queries |-> Len(queryNames), raised |-> FALSE]
        ELSE [queries |-> CHOOSE i \in failing : TRUE, raised |-> TRUE]

\* Mutant: session.close() placed after session.commit(), not in a finally.
GetSessionCloseAfterCommit(body, commitFails) ==
    LET raised == body.raised \/ commitFails
    IN  [queries |-> body.queries, committed |-> ~raised, rolledBack |-> raised,
         closed |-> ~raised, raised |-> raised]

\* get_session: try: yield session; session.commit() / except: session.rollback();
\* raise / finally: session.close().
GetSession(body, commitFails) ==
    LET raised == body.raised \/ commitFails
    IN  [queries |-> body.queries, committed |-> ~raised, rolledBack |-> raised,
         closed |-> TRUE, raised |-> raised]

\* The record of a component's call: its scope, and the value it returned (Null
\* when the exception left the call).
CallRecord(component, fault, scope, value) ==
    [component |-> component, fault |-> fault, queries |-> scope.queries,
     committed |-> scope.committed, rolledBack |-> scope.rolledBack,
     closed |-> scope.closed, raised |-> scope.raised,
     returned |-> IF scope.raised THEN Null ELSE Some(value)]

\* calculate_daily_trends at clock time t: both queries in one scope, the
\* trends built after it.
AnalyzerCall(table, t, order, fault) ==
    CallRecord("analyzer", fault,
               GetSession(BodyOutcome(<<"today_query", "yesterday_query">>, fault),
                          fault = "commit"),
               DailyTrends(table, t, order))

DefaultZThreshold == 3      \* z_threshold: float = 3.0
DefaultHistorySize == 30    \* history_size: int = 30

\* detect_price_anomalies(): one query in one scope, the anomalies built after it.
DetectorCall(table, fault) ==
    CallRecord("detector", fault,
               GetSession(BodyOutcome(<<"query">>, fault), fault = "commit"),
               DetectPriceAnomalies(table, DefaultZThreshold, DefaultHistorySize))

\* The sessions left open once a scope has been left.
StillOpen(call) == openSessions + (IF call.closed THEN 0 ELSE 1)

----------------------------------------------------------------------------
(* The task callables of the fuel_price_monitoring DAG, run by run *)

Abs(x) == IF x < 0 THEN -x ELSE x

\* ti.xcom_push(key, value) by a task, ti.xcom_pull(key, task_ids), and the
\* clearing of a task instance's XComs when a try of it starts.
XcomPush(x, task, key, value) == [x EXCEPT ![<<task, key>>] = Some(value)]
XcomPull(x, key, task) == Val(x[<<task, key>>])
ClearXcom(x, task) == [k \in XcomKeys |-> IF k[1] = task THEN Null ELSE x[k]]

\* The state a try of a task ends in: the callable returned, or it raised and
\* tries remain ('retries': 3), or it raised on the last try.
TryState(task, raised) ==
    IF ~raised THEN "success"
    ELSE IF tryNumber[task] + 1 <= Retries THEN "up_for_retry" ELSE "failed"

\* One try of a task, from the scheduler starting it to its callable
\* returning or raising.
RunTry(task, raised) ==
    /\ CanStart(task)
    /\ taskState' = [taskState EXCEPT ![task] = TryState(task, raised)]
    /\ tryNumber' = [tryNumber EXCEPT ![task] = @ + 1]
    /\ started' = started \cup {task}

KenyaIngested == 2      \* _ingest_kenya_data: 'ingested': 2

\* DataLoader.ingest_all_sources, the EIA fetch returning raw_data.  The
\* api_logs row _log_api_call writes is read by nothing and is left out.
IngestAllSources(table, raw_data) ==
    LET out == IngestOutcome(table, raw_data)
        kenya_results == [status |-> "success", ingested |-> KenyaIngested]
    IN  [table |-> out.table,
         results |-> [total_ingested |-> out.result.ingested + kenya_results.ingested,
                      sources |-> [eia |-> out.result, kenya |-> kenya_results],
                      errors |-> <<>>]]

\* results['sources'].keys(), in insertion order.
SourceKeys(results) == <<"eia", "kenya">>

\* The rows of a table that satisfy a condition, as a table.
EiaRows(table) == [r \in {x \in Rows(table) : x.source = "eia"} |-> table[r]]
NullPriceRows(table) == [r \in {x \in Rows(table) : IsNull(x.price)} |-> table[r]]

EiaRowCount(table) == RowCount(EiaRows(table))

\* SELECT COUNT(*) FROM fuel_prices WHERE price IS NULL AND created_at >=
\* NOW() - INTERVAL '1 hour'.  created_at is not a modelled column: a row
\* with no price counts whatever its age.
NullPriceCount(table) == RowCount(NullPriceRows(table))

AlertThresholdPercent == 5      \* > 5.0  # 5% threshold
TopTrends == 5                  \* trends[:5]

\* Mutant: abs(trend.get('day_change_percent', 0)) >= 5.0
ReachesThreshold(trend) == Abs(trend.day_change_percent) >= AlertThresholdPercent * 10000

\* abs(trend.get('day_change_percent', 0)) > 5.0, day_change_percent being in
\* 1/10000 units.
ExceedsThreshold(trend) == Abs(trend.day_change_percent) > AlertThresholdPercent * 10000

AlertOf(trend) ==
    [fuel_type |-> trend.fuel_type, region |-> trend.region,
     change_percent |-> trend.day_change_percent,
     current_price |-> trend.current_price]

\* The alerts list check_thresholds_task builds from the pulled trends.
RECURSIVE AlertsOf(_)
AlertsOf(trendSeq) ==
    IF trendSeq = <<>> THEN <<>>
    ELSE (IF ExceedsThreshold(Head(trendSeq)) THEN <<AlertOf(Head(trendSeq))>> ELSE <<>>)
         \o AlertsOf(Tail(trendSeq))

\* f"{x:.2f}" of a value in 1/10000 units: the value in 1/100 units.
Format2f(x) == RoundHalfEven(x, 100)

\* The text generate_report_task builds, by its variable parts: the date, the
\* summary and one line for each of the first five trends.
ReportOf(ingestion_results, trendSeq, date) ==
    [date |-> date,
     total_ingested |-> ingestion_results.total_ingested,
     sources |-> SourceKeys(ingestion_results),
     lines |-> [i \in 1..Min(Len(trendSeq), TopTrends) |->
                   [fuel_type |-> trendSeq[i].fuel_type,
                    region |-> trendSeq[i].region,
                    percent |-> Format2f(trendSeq[i].day_change_percent)]]]

MaxEiaRows == 1         \* rows the EIA ingestion adds, run specification
MaxRuns == 2            \* DAG runs in a behaviour
HistoryLen == 9         \* rows of the older series the table starts with
MaxHistoryWrites == 1   \* rows added to the older series
RunDay == 8             \* the calendar day of the runs

\* The EIA fetch of a run: nothing (fetch_eia_prices returns [] on a request
\* error), or one item, well formed or with a bad date.
RunBatches ==
    {<<>>} \cup {<<item>> : item \in {i \in FetchedItems : i.price = 1 /\ i.source_id = 1}}

ingest_data_task(raw_data) ==
    /\ EiaRowCount(store) + Len(raw_data) <= MaxEiaRows
    /\ LET out == IngestAllSources(store, raw_data)
           raised == out.results.total_ingested = 0
           pushed == XcomPush(ClearXcom(xcom, "ingest_data"), "ingest_data",
                              "ingestion_results", out.results)
       IN  /\ RunTry("ingest_data", raised)
           /\ store' = out.table
           /\ ingestResult' = out.results.sources.eia
           /\ xcom' = IF raised THEN pushed
                      ELSE XcomPush(pushed, "ingest_data", "return_value", out.results)
    /\ UNCHANGED <<now, detectVars, trendVars, runNumber, prevXcom, dbCall, openSessions>>

validate_data_task ==
    /\ LET cleared == ClearXcom(xcom, "validate_data")
           ingestion_results == XcomPull(xcom, "ingestion_results", "ingest_data")
           raised == NullPriceCount(store) > 0
       IN  /\ RunTry("validate_data", raised)
           /\ xcom' = IF raised THEN cleared
                      ELSE XcomPush(cleared, "validate_data", "return_value",
                               [validated_records |-> ingestion_results.total_ingested])
    /\ UNCHANGED <<storeVars, detectVars, trendVars, runNumber, prevXcom, dbCall,
                   openSessions>>

analyze_trends_task(order, fault) ==
    /\ LET cleared == ClearXcom(xcom, "analyze_trends")
           call == AnalyzerCall(store, now, order, fault)
       IN  /\ RunTry("analyze_trends", call.raised)
           /\ dbCall' = call
           /\ openSessions' = StillOpen(call)
           /\ xcom' = IF call.raised THEN cleared
                      ELSE XcomPush(XcomPush(cleared, "analyze_trends", "trends",
                                             Val(call.returned)),
                                    "analyze_trends", "return_value", Val(call.returned))
    /\ UNCHANGED <<storeVars, detectVars, trendVars, runNumber, prevXcom>>

detect_anomalies_task(fault) ==
    /\ LET cleared == ClearXcom(xcom, "detect_anomalies")
           call == DetectorCall(store, fault)
       IN  /\ RunTry("detect_anomalies", call.raised)
           /\ dbCall' = call
           /\ openSessions' = StillOpen(call)
           /\ xcom' =
                IF call.raised THEN cleared
                ELSE LET found == Val(call.returned)
                         pushed == IF found # <<>>
                                   THEN XcomPush(XcomPush(cleared, "detect_anomalies",
                                                          "anomalies_detected", TRUE),
                                                 "detect_anomalies", "anomalies", found)
                                   ELSE cleared
                     IN  XcomPush(pushed, "detect_anomalies", "return_value", found)
    /\ UNCHANGED <<storeVars, detectVars, trendVars, runNumber, prevXcom>>

check_thresholds_task ==
    /\ RunTry("check_thresholds", FALSE)
    /\ LET cleared == ClearXcom(xcom, "check_thresholds")
           alerts == AlertsOf(XcomPull(xcom, "trends", "analyze_trends"))
           pushed == IF alerts # <<>>
                     THEN XcomPush(cleared, "check_thresholds", "price_alerts", alerts)
                     ELSE cleared
       IN  xcom' = XcomPush(pushed, "check_thresholds", "return_value", alerts)
    /\ UNCHANGED <<storeVars, detectVars, trendVars, runNumber, prevXcom, dbCall,
                   openSessions>>

generate_report_task ==
    /\ RunTry("generate_report", FALSE)
    /\ LET cleared == ClearXcom(xcom, "generate_report")
           report == ReportOf(XcomPull(xcom, "ingestion_results", "ingest_data"),
                              XcomPull(xcom, "trends", "analyze_trends"),
                              now \div DayLen)
       IN  xcom' = XcomPush(XcomPush(cleared, "generate_report", "daily_report", report),
                            "generate_report", "return_value", report)
    /\ UNCHANGED <<storeVars, detectVars, trendVars, runNumber, prevXcom, dbCall,
                   openSessions>>

\* The EmailOperator: it renders the return value of generate_report and
\* pushes nothing.
send_daily_report ==
    /\ RunTry("send_daily_report", FALSE)
    /\ UNCHANGED <<storeVars, detectVars, trendVars, runVars>>

Finished(task) == taskState[task] \in {"success", "failed", "upstream_failed"}

\* The next DAG run is created once every task instance of this one is
\* finished; the XComs of the finished run stay in the metadata database.
NextDagRun ==
    /\ runNumber < MaxRuns
    /\ \A task \in Tasks : Finished(task)
    /\ runNumber' = runNumber + 1
    /\ prevXcom' = xcom
    /\ xcom' = EmptyXcom
    /\ taskState' = [t \in Tasks |-> "none"]
    /\ tryNumber' = [t \in Tasks |-> 0]
    /\ started' = {}
    /\ UNCHANGED <<storeVars, detectVars, trendVars, dbCall, openSessions>>

\* The clock of the runs: the start of day RunDay.
RunNow == RunDay * DayLen

HistoryKey == <<"", None>>

\* The older series the table starts with: HistoryLen prices of 100, recorded
\* before yesterday.
History ==
    SetToBag({Row(HistoryKey[1], HistoryKey[2], Some(100), "kenya", t, t)
              : t \in 1..HistoryLen})

HistoryRows(table) ==
    {r \in Rows(table) : GroupKey(r) = HistoryKey /\ r.recorded_at < YesterdayStart(RunNow)}

\* The rows of a key for yesterday and today, a price each or none.
DayRows(key, yesterday, today) ==
    SetToBag({Row(key[1], key[2], yesterday, "kenya", RunNow - DayLen, RunNow - DayLen)
              : x \in IF IsNull(yesterday) THEN {} ELSE {1}}
             \cup
             {Row(key[1], key[2], today, "kenya", RunNow, RunNow)
              : x \in IF IsNull(today) THEN {} ELSE {1}})

\* spec.md, Scenario A, in hundredths of a currency unit: today's average for
\* (petrol, Nairobi) 212.36, yesterday's 200.00.
ScenarioA == DayRows(<<"petrol", "Nairobi">>, Some(20000), Some(21236))

\* Yesterday's and today's rows of the two keys: moves of 5 and 10 percent up
\* and down, a key new today, a key gone today, and Scenario A; for the key of
\* the older series, a move of exactly 5 percent.
RunPetrolRows ==
    {DayRows(<<"petrol", "Nairobi">>, y, t) :
        y \in {Null, Some(20)}, t \in {Null, Some(18), Some(19), Some(21), Some(22)}}
    \cup {ScenarioA}
RunOtherRows == {EmptyBag, DayRows(HistoryKey, Some(100), Some(105))}

\* A row added to the older series between two runs.
WriteHistory(price) ==
    /\ started = {}
    /\ Cardinality(HistoryRows(store)) < HistoryLen + MaxHistoryWrites
    /\ LET t == Cardinality(HistoryRows(store)) + 1
       IN  store' = InsertRow(store,
                        Row(HistoryKey[1], HistoryKey[2], Some(price), "kenya", t, t))
    /\ UNCHANGED <<now, ingestResult, detectVars, trendVars, dagVars, runVars>>

InitRun ==
    /\ store \in {History (+) p (+) o : p \in RunPetrolRows, o \in RunOtherRows}
    /\ now = RunNow
    /\ ingestResult = NoResult
    /\ detectCall = [ran |-> FALSE, z_threshold |-> 0, history_size |-> 0,
                     queries |-> 0, raised |-> FALSE]
    /\ anomalies = <<>>
    /\ trendCall = [calls |-> 0, now |-> 0, prevNow |-> 0]
    /\ trends = <<>>
    /\ prevTrends = <<>>
    /\ taskState = [t \in Tasks |-> "none"]
    /\ tryNumber = [t \in Tasks |-> 0]
    /\ started = {}
    /\ InitRunIdle

\* One DAG run, data-access failures striking the two components' scopes.
NextRun ==
    \/ \E price \in {100, 130} : WriteHistory(price)
    \/ \E raw_data \in RunBatches : ingest_data_task(raw_data)
    \/ validate_data_task
    \/ \E fault \in AnalyzerFaults :
           \E order \in Orderings(TodayGroups(store, now)) :
               analyze_trends_task(order, fault)
    \/ \E fault \in DetectorFaults : detect_anomalies_task(fault)
    \/ check_thresholds_task
    \/ generate_report_task
    \/ send_daily_report
    \/ \E task \in Tasks : MarkUpstreamFailed(task)

SpecRun == InitRun /\ [][NextRun]_vars

\* Successive DAG runs with no failure, rows written between them.
NextSchedule ==
    \/ \E price \in {100, 130} : WriteHistory(price)
    \/ \E raw_data \in RunBatches : ingest_data_task(raw_data)
    \/ validate_data_task
    \/ \E order \in Orderings(TodayGroups(store, now)) :
           analyze_trends_task(order, "none")
    \/ detect_anomalies_task("none")
    \/ check_thresholds_task
    \/ generate_report_task
    \/ send_daily_report
    \/ NextDagRun

SpecSchedule == InitRun /\ [][NextSchedule]_vars

----------------------------------------------------------------------------
(* C1: after any sequence of ingestion runs the table holds at most one    *)
(* observation per (source, source_id).                                    *)
C1_OnePerSourceId ==
    \A r \in Rows(store) :
        /\ store[r] = 1
        /\ \A q \in Rows(store) :
               (q.source = r.source /\ q.source_id = r.source_id) => q = r

----------------------------------------------------------------------------
(* The detector's claims, stated on the table and the returned anomalies.   *)

\* The non-null prices of a key's rows, oldest first.
RECURSIVE PricesOldestFirst(_)
PricesOldestFirst(S) ==
    IF S = {} THEN <<>>
    ELSE LET r == CHOOSE x \in S : \A q \in S : x.recorded_at <= q.recorded_at
         IN  <<Val(r.price)>> \o PricesOldestFirst(S \ {r})

SeriesOf(key) ==
    PricesOldestFirst({r \in Rows(store) : SeriesKey(r) = key /\ ~IsNull(r.price)})

StoredKeys == {SeriesKey(r) : r \in Rows(store)}

AnomaliesFor(key) ==
    {i \in 1..Len(anomalies) :
        <<anomalies[i].fuel_type, anomalies[i].region>> = key}

\* The last n elements of s: none when n <= 0.
LastN(s, n) == IF n <= 0 THEN <<>> ELSE SubSeq(s, Max(Len(s) - n, 0) + 1, Len(s))

\* The window the code takes: the last history_size prices, and the whole
\* series when history_size is 0.
WindowTaken(s, history_size) == IF history_size = 0 THEN s ELSE LastN(s, history_size)

AllEqual(w) == \A i \in 1..Len(w) : w[i] = w[1]

\* N^2 times the population variance of w, and N * sigma * z for its last price.
NVar(w) == Len(w) * SeqSumSq(w) - SeqSum(w) * SeqSum(w)
NDev(w) == Len(w) * w[Len(w)] - SeqSum(w)

\* |z| >= t for the last price of w (NVar(w) > 0).
ZReaches(w, t) == t <= 0 \/ NDev(w) * NDev(w) >= t * t * NVar(w)

(* C3: every anomaly returned belongs to a series with at least 5 non-null   *)
(* prices whose baseline window, the last history_size prices, has nonzero  *)
(* population standard deviation.                                           *)
C3_GuardsHold ==
    detectCall.ran =>
        \A i \in 1..Len(anomalies) :
            LET s == SeriesOf(<<anomalies[i].fuel_type, anomalies[i].region>>)
                w == LastN(s, detectCall.history_size)
            IN  /\ Len(s) >= 5
                /\ ~AllEqual(w)

(* C4: a series that passes the sample-count and nonzero-variance guards    *)
(* yields exactly one anomaly when |z| >= z_threshold and none otherwise;   *)
(* the anomaly is a 'spike' when z > 0 and a 'drop' when z <= 0.            *)
C4_ThresholdDecides ==
    detectCall.ran =>
        \A key \in StoredKeys :
            LET s == SeriesOf(key)
                w == WindowTaken(s, detectCall.history_size)
            IN  (Len(s) >= 5 /\ ~AllEqual(w)) =>
                    IF ZReaches(w, detectCall.z_threshold)
                    THEN /\ Cardinality(AnomaliesFor(key)) = 1
                         /\ \A i \in AnomaliesFor(key) :
                                anomalies[i].anomaly_type =
                                    IF NDev(w) > 0 THEN "spike" ELSE "drop"
                    ELSE AnomaliesFor(key) = {}

\* Scenario B at the defaults yields exactly one anomaly, a spike.
C4_Witness ==
    /\ detectCall.ran
    /\ detectCall.z_threshold = 3
    /\ detectCall.history_size = 30
    /\ store = ScenarioB
    /\ Len(anomalies) = 1
    /\ anomalies[1].anomaly_type = "spike"
    /\ anomalies[1].baseline_mean = 1010000

\* A series whose earlier prices are all identical and whose latest differs.
FlatThenDiffers(s) ==
    /\ Len(s) >= 2
    /\ \A i \in 1..(Len(s) - 1) : s[i] = s[1]
    /\ s[Len(s)] # s[1]

(* C5, as stated: a series whose earlier prices are all identical and whose *)
(* latest price differs yields no anomaly.                                  *)
C5_FlatThenDiffersSuppressed ==
    detectCall.ran =>
        \A key \in StoredKeys :
            FlatThenDiffers(SeriesOf(key)) => AnomaliesFor(key) = {}

(* C5, amended: the latest price is part of its own baseline window, so for *)
(* such a series the window of N prices has nonzero variance and z^2 is     *)
(* N - 1; the series yields an anomaly exactly when it has at least 5       *)
(* prices, N >= 2, and z_threshold <= 0 or z_threshold^2 <= N - 1.          *)
C5_FlatThenDiffersDecided ==
    detectCall.ran =>
        \A key \in StoredKeys :
            LET s == SeriesOf(key)
                n == Len(WindowTaken(s, detectCall.history_size))
                t == detectCall.z_threshold
            IN  FlatThenDiffers(s) =>
                    (AnomaliesFor(key) # {}
                        <=> (Len(s) >= 5 /\ n >= 2 /\ (t <= 0 \/ t * t <= n - 1)))

\* Four equal prices and a different fifth, threshold 2: an anomaly.
C5_Witness ==
    /\ detectCall.ran
    /\ detectCall.z_threshold = 2
    /\ detectCall.history_size = 30
    /\ \E key \in StoredKeys :
           /\ FlatThenDiffers(SeriesOf(key))
           /\ Len(SeriesOf(key)) = 5
           /\ AnomaliesFor(key) # {}

(* C6: a call with z_threshold <= 0 raises a configuration error before any *)
(* store query and returns no anomalies.                                    *)
C6_NonPositiveThresholdRejected ==
    (detectCall.ran /\ detectCall.z_threshold <= 0) =>
        /\ detectCall.raised
        /\ detectCall.queries = 0
        /\ anomalies = <<>>

----------------------------------------------------------------------------
(* The trend calculator's claims, stated on the table, the call times and   *)
(* the returned trends.  The table is as it was at the calls: the trend     *)
(* specification writes no row after the first call.                        *)

DayOf(t) == t \div DayLen

\* The rows of a key recorded on calendar day d, and those of day d recorded
\* before time t.
KeyRowsOn(key, d) ==
    {r \in Rows(store) : GroupKey(r) = key /\ DayOf(r.recorded_at) = d}
KeyRowsOnBefore(key, d, t) == {r \in KeyRowsOn(key, d) : r.recorded_at < t}

\* The sum and the number of the prices of the copies of the rows in S.
RECURSIVE PriceSum(_)
PriceSum(S) ==
    IF S = {} THEN 0
    ELSE LET r == CHOOSE x \in S : TRUE
         IN  store[r] * Val(r.price) + PriceSum(S \ {r})

RECURSIVE CopyCount(_)
CopyCount(S) ==
    IF S = {} THEN 0
    ELSE LET r == CHOOSE x \in S : TRUE IN store[r] + CopyCount(S \ {r})

\* round(mean price of S, 4)
MeanRound4(S) == RoundHalfEven(PriceSum(S) * 10000, CopyCount(S))

TrendKey(tr) == <<tr.fuel_type, tr.region>>
TrendsFor(key) == {i \in DOMAIN trends : TrendKey(trends[i]) = key}
TrendSet(seq) == {seq[i] : i \in DOMAIN seq}

(* C7: a trend whose key has no yesterday average has yesterday_price =      *)
(* current_price, day_change = 0 and day_change_percent = 0; a trend whose  *)
(* key's yesterday average is 0 has day_change_percent = 0.                 *)
C7_MissingOrZeroPrior ==
    trendCall.calls >= 1 =>
        \A i \in DOMAIN trends :
            LET tr == trends[i]
                Y == KeyRowsOn(TrendKey(tr), DayOf(trendCall.now) - 1)
            IN  /\ Y = {} => /\ tr.yesterday_price = tr.current_price
                             /\ tr.day_change = 0
                             /\ tr.day_change_percent = 0
                /\ (Y # {} /\ PriceSum(Y) = 0) => tr.day_change_percent = 0

\* One call returned a trend of a nonzero price with no yesterday average and
\* a trend of a nonzero price whose yesterday average is 0.
C7_Witness ==
    /\ trendCall.calls >= 1
    /\ \E i \in DOMAIN trends :
           /\ KeyRowsOn(TrendKey(trends[i]), DayOf(trendCall.now) - 1) = {}
           /\ trends[i].current_price > 0
    /\ \E i \in DOMAIN trends :
           LET Y == KeyRowsOn(TrendKey(trends[i]), DayOf(trendCall.now) - 1)
           IN  Y # {} /\ PriceSum(Y) = 0 /\ trends[i].current_price > 0

(* C8: the today average of a trend is the mean price of exactly the        *)
(* observations of its key with today_start <= recorded_at < now, and the   *)
(* yesterday average the mean over yesterday_start <= recorded_at <         *)
(* today_start; an observation recorded at or after now contributes to no   *)
(* trend.                                                                   *)
C8_WindowsExact ==
    trendCall.calls >= 1 =>
        \A i \in DOMAIN trends :
            LET tr == trends[i]
                T == KeyRowsOnBefore(TrendKey(tr), DayOf(trendCall.now), trendCall.now)
                Y == KeyRowsOn(TrendKey(tr), DayOf(trendCall.now) - 1)
            IN  /\ T # {}
                /\ tr.current_price = MeanRound4(T)
                /\ Y # {} => tr.yesterday_price = MeanRound4(Y)

(* C9, as stated: two calls with no write between them return identical     *)
(* trend sequences, whatever the times of the calls.                        *)
C9_CallsAgree ==
    trendCall.calls >= 2 => trends = prevTrends

(* C9, amended: two calls with no write between them, made on the same      *)
(* calendar day of the server clock, return the same trends (the order of   *)
(* the sequence is the order the database returns the groups in), and no    *)
(* call changes the table.                                                  *)
C9_SameDayCallsAgree ==
    /\ [](trendCall.calls >= 2 /\ DayOf(trendCall.now) = DayOf(trendCall.prevNow)
            => /\ TrendSet(trends) = TrendSet(prevTrends)
               /\ Len(trends) = Len(prevTrends))
    /\ [][trendCall' # trendCall => store' = store]_vars

\* Two calls at different times of one day, each returning a trend.
C9_Witness ==
    /\ trendCall.calls >= 2
    /\ DayOf(trendCall.now) = DayOf(trendCall.prevNow)
    /\ trendCall.now # trendCall.prevNow
    /\ trends # <<>>
    /\ RowCount(store) >= 2

(* C10: exactly one trend for each key with at least one observation today  *)
(* (the calendar day of the call), and none for any other key.              *)
C10_OneTrendPerTodayKey ==
    trendCall.calls >= 1 =>
        \A key \in KeySet :
            Cardinality(TrendsFor(key)) =
                IF KeyRowsOn(key, DayOf(trendCall.now)) # {} THEN 1 ELSE 0

----------------------------------------------------------------------------
(* The DAG's claim *)

\* The tasks that come before a task in the order ingest_data ->
\* validate_data -> analyze_trends -> {detect_anomalies, check_thresholds} ->
\* generate_report -> send_daily_report.
Before(task) ==
    CASE task = "ingest_data" -> {}
      [] task = "validate_data" -> {"ingest_data"}
      [] task = "analyze_trends" -> {"ingest_data", "validate_data"}
      [] task \in {"detect_anomalies", "check_thresholds"} ->
            {"ingest_data", "validate_data", "analyze_trends"}
      [] task = "generate_report" ->
            {"ingest_data", "validate_data", "analyze_trends", "detect_anomalies",
             "check_thresholds"}
      [] task = "send_daily_report" -> Tasks \ {"send_daily_report"}

(* C2: a task starts only after every task before it in the order has       *)
(* succeeded; analyze_trends and detect_anomalies never start before        *)
(* ingest_data has succeeded, and never start at all if ingest_data fails.  *)
C2_StartsAfterUpstream ==
    /\ \A t \in started : \A u \in Before(t) : taskState[u] = "success"
    /\ taskState["ingest_data"] \in {"failed", "up_for_retry", "running", "none"}
           => started \cap {"analyze_trends", "detect_anomalies"} = {}

\* detect_anomalies running on its second try, ingest_data having succeeded on
\* a retry.
C2_Witness ==
    /\ taskState["detect_anomalies"] = "running"
    /\ tryNumber["detect_anomalies"] = 2
    /\ tryNumber["ingest_data"] >= 2
    /\ taskState["ingest_data"] = "success"

----------------------------------------------------------------------------
(* The claims on the task callables, stated on the XCom values of a run.     *)

Pushed(x, task, key) == ~IsNull(x[<<task, key>>])

\* The positions of the trends that moved by more than 5 percent.
MovedOverFive(trendSeq) ==
    {i \in DOMAIN trendSeq :
        \/ trendSeq[i].day_change_percent > 5 * 10000
        \/ trendSeq[i].day_change_percent < -(5 * 10000)}

\* The alert of a trend.
AlertFor(trend, alert) ==
    /\ alert.fuel_type = trend.fuel_type
    /\ alert.region = trend.region
    /\ alert.change_percent = trend.day_change_percent
    /\ alert.current_price = trend.current_price

(* C11: check_thresholds_task returns an alert for exactly the trends of     *)
(* analyze_trends whose |day_change_percent| is strictly greater than 5.0,  *)
(* in their order; what it returns is fixed by the trends alone, whatever   *)
(* detect_anomalies has returned.                                           *)
C11_AlertsExactlyOverFive ==
    Pushed(xcom, "check_thresholds", "return_value") =>
        LET trendSeq == XcomPull(xcom, "trends", "analyze_trends")
            alerts == XcomPull(xcom, "return_value", "check_thresholds")
            moved == MovedOverFive(trendSeq)
        IN  /\ Len(alerts) = Cardinality(moved)
            /\ \A i \in moved :
                   AlertFor(trendSeq[i],
                            alerts[Cardinality({j \in moved : j <= i})])
            /\ Pushed(xcom, "check_thresholds", "price_alerts") <=> alerts # <<>>

\* Scenario A (212.36 against 200.00, 6.18 percent) raises the one alert of a
\* run in which another key moved by exactly 5.0 percent and the detector
\* returned an anomaly.
C11_Witness ==
    /\ Pushed(xcom, "check_thresholds", "return_value")
    /\ Pushed(xcom, "detect_anomalies", "return_value")
    /\ XcomPull(xcom, "return_value", "detect_anomalies") # <<>>
    /\ LET trendSeq == XcomPull(xcom, "trends", "analyze_trends")
           alerts == XcomPull(xcom, "return_value", "check_thresholds")
       IN  /\ Len(trendSeq) = 2
           /\ \E i \in DOMAIN trendSeq : trendSeq[i].day_change_percent = 50000
           /\ Len(alerts) = 1
           /\ alerts[1].fuel_type = "petrol"
           /\ alerts[1].change_percent = 61800
           /\ alerts[1].current_price = 212360000

\* A run whose every task has succeeded: this one, and the one before it.
RunCompleted == \A task \in Tasks : taskState[task] = "success"
PrevRunCompleted == Pushed(prevXcom, "generate_report", "return_value")

AlertFields == {"fuel_type", "region", "change_percent", "current_price"}
AnomalyFields ==
    {"fuel_type", "region", "latest_price", "baseline_mean", "z_score", "anomaly_type"}

(* C12: in every completed run the alerts of check_thresholds and the         *)
(* anomalies of detect_anomalies both feed the report of generate_report:    *)
(* two completed runs with the same ingestion results and the same trends   *)
(* that differ in their alerts or in their anomalies have different         *)
(* reports; and the two kinds are kept as separate values, the alerts list  *)
(* holding alerts only and the anomalies list anomalies only.               *)
C12_AlertsAndAnomaliesFeedReport ==
    /\ (RunCompleted /\ PrevRunCompleted) =>
           LET same(task, key) == xcom[<<task, key>>] = prevXcom[<<task, key>>]
           IN  (/\ same("ingest_data", "ingestion_results")
                /\ same("analyze_trends", "trends")
                /\ \/ ~same("detect_anomalies", "return_value")
                   \/ ~same("check_thresholds", "return_value"))
               => ~same("generate_report", "daily_report")
    /\ Pushed(xcom, "check_thresholds", "return_value") =>
           LET alerts == XcomPull(xcom, "return_value", "check_thresholds")
           IN  \A i \in DOMAIN alerts : DOMAIN alerts[i] = AlertFields
    /\ Pushed(xcom, "detect_anomalies", "return_value") =>
           LET found == XcomPull(xcom, "return_value", "detect_anomalies")
           IN  \A i \in DOMAIN found : DOMAIN found[i] = AnomalyFields

\* The task that calls a component, and the queries a scope of the component
\* has issued when a failure strikes it at a given point.
CallerOf(component) ==
    IF component = "analyzer" THEN "analyze_trends" ELSE "detect_anomalies"
QueriesUpTo(component, fault) ==
    IF component = "analyzer" THEN (IF fault = "today_query" THEN 1 ELSE 2) ELSE 1

(* C13: a data-access failure inside a get_session scope of                  *)
(* calculate_daily_trends or detect_price_anomalies, at a query or at the   *)
(* commit, leaves the call as an exception: no query is issued again, no    *)
(* value is returned and the task pushes nothing; the session is rolled     *)
(* back on failure and closed on every path, so no session is open once a   *)
(* call has returned or raised, nor when the other component runs.          *)
C13_FailureReRaisedSessionClosed ==
    /\ openSessions = 0
    /\ dbCall.component # "none" =>
           /\ dbCall.closed
           /\ dbCall.queries = QueriesUpTo(dbCall.component, dbCall.fault)
           /\ dbCall.raised <=> dbCall.fault # "none"
           /\ dbCall.rolledBack <=> dbCall.raised
           /\ dbCall.committed <=> ~dbCall.raised
           /\ IsNull(dbCall.returned) <=> dbCall.raised
           /\ dbCall.raised =>
                  /\ taskState[CallerOf(dbCall.component)] \in {"up_for_retry", "failed"}
                  /\ \A k \in XcomKeys :
                         k[1] = CallerOf(dbCall.component) => IsNull(xcom[k])

\* The detector's scope fails at its commit, in a run whose analyzer failed
\* at its second query on the first try and returned trends on a later one.
C13_Witness ==
    /\ dbCall.component = "detector"
    /\ dbCall.fault = "commit"
    /\ dbCall.raised
    /\ dbCall.rolledBack
    /\ dbCall.closed
    /\ openSessions = 0
    /\ tryNumber["analyze_trends"] >= 2
    /\ Pushed(xcom, "analyze_trends", "trends")
    /\ XcomPull(xcom, "trends", "analyze_trends") # <<>>
    /\ taskState["detect_anomalies"] = "up_for_retry"

----------------------------------------------------------------------------
(* C14: for every baseline window of N prices with nonzero variance the      *)
(* z-score satisfies z^2 <= N - 1; and with the default z_threshold of 3.0  *)
(* no series whose window holds fewer than 10 prices, that is any series of *)
(* 5 to 9 valid prices and any series under a history_size below 10, yields *)
(* an anomaly.                                                              *)
C14_SmallWindowNeverAnomalous ==
    detectCall.ran =>
        \A key \in StoredKeys :
            LET s == SeriesOf(key)
                w == WindowTaken(s, detectCall.history_size)
            IN  /\ (Len(s) >= 5 /\ Len(w) >= 2 /\ ~AllEqual(w)) =>
                       NDev(w) * NDev(w) <= (Len(w) - 1) * NVar(w)
                /\ (detectCall.z_threshold = 3
                       /\ (Len(s) <= 9 \/ detectCall.history_size < 10)) =>
                       AnomaliesFor(key) = {}

====
